---------------------------- MODULE Spec2Model ----------------------------
(***************************************************************************)
(* A model of simplerelic: the three endpoint metrics (requests, error     *)
(* rate, response time), the Reporter that ships them, and the request     *)
(* handlers that update them.                                              *)
(*                                                                         *)
(* Go maps are reference values: a metric field such as m.numReq holds the *)
(* address of a map, and a snapshot that stores m.numReq stores the same   *)
(* address.  The model therefore keeps the maps in a heap.                 *)
(*                                                                         *)
(* float32 values are modelled by the exact rational <<num, den>> (lowest  *)
(* terms) they are the rounding of: the integers of the model are far      *)
(* below 2^24, so float32(int) is exact, sums of them are exact, and the   *)
(* rounded quotient of two of them determines the rational.                *)
(***************************************************************************)
EXTENDS Integers, Sequences, FiniteSets, TLC

(***************************************************************************)
(* Bounds of the model.                                                    *)
(***************************************************************************)
MaxUpdates == 3
MaxSnapshots == 3

\* Bounds of the runs with several goroutines.
MaxHandlerUpdates == 2
MaxExports == 2
MaxClears == 1
MaxRequests == 1
MaxTicks == 2

\* Bound of the runs of the default reporter with one caller.
MaxCollects == 2

\* Bound of the runs of the request and the error-rate metric side by side.
MaxLedgerUpdates == 2

\* Addresses: the live maps, the retained snapshots, the map ValueMap makes
\* before the one doSnapshot made is dropped, and one per handler thread.
MaxAddr == MaxSnapshots + MaxExports + MaxTicks + 3

Addr == 1 .. MaxAddr

(***************************************************************************)
(* Go maps, float32 and metric names.                                      *)
(***************************************************************************)
unknownEndpoint == "other"

\* The endpoint names the request handlers of the model pass.
EndpointNames == {"log", "api"}

Endpoints == EndpointNames \cup {unknownEndpoint}

\* make(map[string]int)
EmptyMap == [e \in {} |-> 0]

\* m[k] of a Go map: the zero value when the key is missing.
Get(m, k) == IF k \in DOMAIN m THEN m[k] ELSE 0

\* m[k] = v
Put(m, k, v) == [x \in (DOMAIN m) \cup {k} |-> IF x = k THEN v ELSE m[x]]

RECURSIVE GCD(_, _)
GCD(a, b) == IF b = 0 THEN a ELSE GCD(b, a % b)

\* float32(n) of an int
F32(n) == <<n, 1>>

FZero == F32(0)

\* a / b of two float32
FDiv(a, b) ==
  LET n == a[1] * b[2]
      d == a[2] * b[1]
      g == GCD(n, d)
  IN  <<n \div g, d \div g>>

\* a + b of two float32
FAdd(a, b) ==
  LET n == a[1] * b[2] + b[1] * a[2]
      d == a[2] * b[2]
      g == GCD(n, d)
  IN  <<n \div g, d \div g>>

\* m.namePrefix + endpoint + m.metricUnit
MetricName(prefix, endpoint, unit) == prefix \o endpoint \o unit

\* m.namePrefixOverall + m.metricUnit
OverallName(prefix, unit) == prefix \o unit

\* The status codes the request handlers of the model report.
StatusCodes == {200, 404}

\* A parameter bag (map[string]interface{}): the keys it holds and their values.
\* A key that is not held has no value; the record then carries a fixed one.
ParamKeys == {"endpointName", "statusCode", "reqStartTime"}

ParamBags ==
  {p \in [keys : SUBSET ParamKeys, endpointName : EndpointNames, statusCode : StatusCodes] :
     /\ "endpointName" \notin p.keys => p.endpointName = "log"
     /\ "statusCode" \notin p.keys => p.statusCode = 200}

\* An endpointName that does not test whether the bag holds the key.
endpointNameUnchecked(params) == params.endpointName

\* MetricBase.endpointName
endpointName(params) ==
  IF "endpointName" \notin params.keys THEN unknownEndpoint ELSE params.endpointName

VARIABLES
  heap,        \* Addr -> Go map (string -> int): the maps of ReqPerEndpoint
  req,         \* the ReqPerEndpoint metric
  reqOut,      \* the mapping its last ValueMap returned
  reqHist,     \* what the callers did with it (history)
  errHeap,     \* ErrAddr -> Go map: the maps of ErrorRatePerEndpoint
  err,         \* the ErrorRatePerEndpoint metric
  errOut,      \* the mapping its last ValueMap returned
  errHist,     \* what the callers did with it (history)
  rt,          \* the ResponseTimePerEndpoint metric
  rtOut,       \* the mapping its last ValueMap returned
  rtHist,      \* what the callers did with it (history)
  hpc,         \* handler goroutine -> where it is in ReqPerEndpoint.Update
  hloc,        \* handler goroutine -> its locals there
  xpc,         \* where the exporting goroutine is in ReqPerEndpoint.ValueMap
  xout,        \* the mapping it has built
  conc,        \* how the calls of the goroutines overlapped (history)
  loop,        \* where the goroutine of Reporter.Start is
  tickPending, \* a tick waits in ticker.C
  payload,     \* reqData.Components[0].Metrics of the cycle under way
  rh,          \* the goroutine in UpdateMetricsOnReqEnd: position and arguments
  rep          \* what the reporter did (history)

reqVars == <<heap, req, reqOut, reqHist>>
errVars == <<errHeap, err, errOut, errHist>>
rtVars == <<rt, rtOut, rtHist>>
concVars == <<hpc, hloc, xpc, xout, conc>>
repVars == <<loop, tickPending, payload, rh, rep>>
vars == <<reqVars, errVars, rtVars, concVars, repVars>>

\* What an action on one metric by a single caller leaves alone.
notReqVars == <<errVars, rtVars, concVars, repVars>>
notErrVars == <<reqVars, rtVars, concVars, repVars>>
notRtVars == <<reqVars, errVars, concVars, repVars>>

(***************************************************************************)
(* The heap.  An address no field, snapshot or local refers to is free     *)
(* (Go's collector), and free addresses hold the empty map.                *)
(***************************************************************************)
SeqRange(s) == {s[i] : i \in 1 .. Len(s)}

ReqRoots(m) == {m.numReq} \cup SeqRange(m.snapshots)

Collect(h, roots) == [a \in Addr |-> IF a \in roots THEN h[a] ELSE EmptyMap]

\* The address make() returns: any free one; the least keeps states canonical.
NewAddr(roots) == CHOOSE a \in Addr \ roots : \A b \in Addr \ roots : a <= b

\* The goroutines that handle requests concurrently.
Handlers == {"h1", "h2"}

\* The locals of Update: the endpoint, and for m.numReq[endpointName]++ the
\* map it read from m.numReq (0: none) and the count it read there.
NoLocals == [endpoint |-> unknownEndpoint, addr |-> 0, val |-> 0]

\* The maps the locals of the handlers refer to.
LocalRoots(loc) == {loc[h].addr : h \in Handlers} \ {0}

\* A Lock that returns at once whoever holds the lock (an Update written
\* without its Lock/Unlock pair).
LockIgnored(m) == TRUE

\* m.lock.Lock() can return: no goroutine holds the metric's lock.
LockFree(m) == ~m.lock

(***************************************************************************)
(* Requests per endpoint.                                                  *)
(***************************************************************************)
ReqNamePrefix == "Component/ReqPerEndpoint/"
ReqNamePrefixOverall == "Component/Req/overall"
ReqMetricUnit == "[requests]"

\* NewReqPerEndpoint: m.endpoints is nil, so only "other" is initialised.
NewReqPerEndpoint(a) ==
  [m |-> [numReq |-> a, snapshots |-> <<>>, lock |-> FALSE],
   map |-> Put(EmptyMap, unknownEndpoint, 0)]

\* An Update that makes the map anew and keeps the entry of its endpoint alone.
ReqIncrementFresh(h, a, endpoint) ==
  [h EXCEPT ![a] = Put(EmptyMap, endpoint, Get(h[a], endpoint) + 1)]

\* An Update that counts every request under "other" as well.
ReqIncrementAndOther(h, a, endpoint) ==
  LET h1 == [h EXCEPT ![a] = Put(h[a], endpoint, Get(h[a], endpoint) + 1)]
  IN  IF endpoint = unknownEndpoint THEN h1
      ELSE [h1 EXCEPT ![a] = Put(h1[a], unknownEndpoint, Get(h1[a], unknownEndpoint) + 1)]

\* m.numReq[endpointName]++ on the map at address a
ReqIncrement(h, a, endpoint) ==
  [h EXCEPT ![a] = Put(h[a], endpoint, Get(h[a], endpoint) + 1)]

\* A doSnapshot that keeps the new snapshot alone.
ReqDoSnapshotReplace(m, fresh) ==
  [m EXCEPT !.snapshots = <<m.numReq>>, !.numReq = fresh]

\* doSnapshot: the snapshot keeps the live map, the metric gets a new one.
ReqDoSnapshot(m, fresh) ==
  [m EXCEPT !.snapshots = Append(m.snapshots, m.numReq), !.numReq = fresh]

\* A ValueMap that reports the newest snapshot alone (what the metric did
\* before it retained snapshots).
ReqNewestSnapshotOnly(m) ==
  IF m.snapshots = <<>> THEN <<>> ELSE <<m.snapshots[Len(m.snapshots)]>>

\* The snapshots ValueMap ranges over: all that are retained.
ReqSnapshotsToSum(m) == m.snapshots

RECURSIVE ReqSumEndpoint(_, _, _)
ReqSumEndpoint(h, snaps, endpoint) ==
  IF snaps = <<>> THEN FZero
  ELSE FAdd(ReqSumEndpoint(h, Tail(snaps), endpoint),
            IF endpoint \in DOMAIN h[Head(snaps)]
              THEN F32(h[Head(snaps)][endpoint]) ELSE FZero)

\* A total that starts again at 0 for each snapshot (numReqAllEndpoints
\* declared inside the loop over the snapshots): the newest snapshot's total.
RECURSIVE ReqSumAllNewest(_, _)
ReqSumAllNewest(h, snaps) ==
  IF snaps = <<>> THEN 0
  ELSE IF Len(snaps) > 1 THEN ReqSumAllNewest(h, Tail(snaps))
  ELSE LET RECURSIVE SumMap(_, _)
           SumMap(mp, keys) ==
             IF keys = {} THEN 0
             ELSE LET k == CHOOSE x \in keys : TRUE
                  IN  mp[k] + SumMap(mp, keys \ {k})
       IN  SumMap(h[Head(snaps)], DOMAIN h[Head(snaps)])

RECURSIVE ReqSumAll(_, _)
ReqSumAll(h, snaps) ==
  IF snaps = <<>> THEN 0
  ELSE LET RECURSIVE SumMap(_, _)
           SumMap(mp, keys) ==
             IF keys = {} THEN 0
             ELSE LET k == CHOOSE x \in keys : TRUE
                  IN  mp[k] + SumMap(mp, keys \ {k})
       IN  SumMap(h[Head(snaps)], DOMAIN h[Head(snaps)]) + ReqSumAll(h, Tail(snaps))

\* The mapping ValueMap builds from the retained snapshots.
ReqValues(h, m) ==
  LET snaps == ReqSnapshotsToSum(m)
      eps   == UNION {DOMAIN h[snaps[i]] : i \in 1 .. Len(snaps)}
      names == {MetricName(ReqNamePrefix, e, ReqMetricUnit) : e \in eps}
      overall == OverallName(ReqNamePrefixOverall, ReqMetricUnit)
  IN  [n \in names \cup {overall} |->
         IF n = overall THEN F32(ReqSumAll(h, snaps))
         ELSE LET e == CHOOSE x \in eps : MetricName(ReqNamePrefix, x, ReqMetricUnit) = n
              IN  ReqSumEndpoint(h, snaps, e)]

\* ValueMap line 412: m.numReq = make(map[string]int)
ReqResetLive(m, fresh) == [m EXCEPT !.numReq = fresh]

\* A Clear that resets the live counters as well ("Clear resets all the
\* metric values"): m.numReq = make(map[string]int)
ReqClearAll(m) == [m EXCEPT !.snapshots = <<>>, !.numReq = NewAddr(ReqRoots(m))]

\* A Clear that retains the snapshots (as ResponseTimePerEndpoint.Clear,
\* whose body is a comment).
ReqClearNothing(m) == m

\* Clear: m.snapshots = make([]*ReqPerEndpointSnapshot, 0)
ReqClearSnapshots(m) == [m EXCEPT !.snapshots = <<>>]

(***************************************************************************)
(* History of the calls on the request metric, kept for the properties.    *)
(*   updates    Updates per endpoint since the last Clear                  *)
(*   pending    Updates per endpoint since the last ValueMap               *)
(*   carried    the Updates that were pending when Clear was last called   *)
(*   last, prev the last two calls                                         *)
(*   total      all Updates so far                                         *)
(*   clears, exports   the Clear and ValueMap calls so far (2: two or more)*)
(*   ledger     the ValueMap calls since the last Clear                    *)
(***************************************************************************)
ZeroCount == [e \in Endpoints |-> 0]

ReqHistInit ==
  [updates |-> ZeroCount, pending |-> ZeroCount, carried |-> ZeroCount,
   last |-> "new", prev |-> "new", total |-> 0, clears |-> 0, exports |-> 0,
   ledger |-> 0]

HistUpdate(hist, e) ==
  [hist EXCEPT !.updates[e] = @ + 1, !.pending[e] = @ + 1,
               !.prev = hist.last, !.last = "Update", !.total = @ + 1]

HistValueMap(hist) ==
  [hist EXCEPT !.pending = ZeroCount, !.prev = hist.last, !.last = "ValueMap",
               !.exports = IF @ < 2 THEN @ + 1 ELSE @, !.ledger = @ + 1]

HistClear(hist) ==
  [hist EXCEPT !.updates = ZeroCount, !.carried = hist.pending,
               !.prev = hist.last, !.last = "Clear",
               !.clears = IF @ < 2 THEN @ + 1 ELSE @, !.ledger = 0]

(***************************************************************************)
(* Error rate per endpoint.                                                *)
(***************************************************************************)
ErrNamePrefix == "Component/ErrorRatePerEndpoint/"
ErrNamePrefixOverall == "Component/ErrorRate/overall"
ErrMetricUnit == "[percent]"

\* The two maps NewErrorRatePerEndpoint makes; no other code path makes one.
ErrAddr == 1 .. 2

\* ErrorRatePerEndpoint.init: m.endpoints is nil, so only "other" is set,
\* in the maps m.numReq and m.errorCount refer to.
ErrInitMaps(h, m) ==
  [h EXCEPT ![m.numReq] = Put(h[m.numReq], unknownEndpoint, 0),
            ![m.errorCount] = Put(h[m.errorCount], unknownEndpoint, 0)]

NewErrorRatePerEndpoint ==
  LET m == [numReq |-> 1, errorCount |-> 2, snapshots |-> <<>>, lock |-> FALSE]
  IN  [m |-> m, h |-> ErrInitMaps([a \in ErrAddr |-> EmptyMap], m)]

\* An Update that takes a status above 400, not 400 itself, for an error.
ErrIncrementAbove(h, m, endpoint, statusCode) ==
  LET h1 == IF statusCode > 400
              THEN [h EXCEPT ![m.errorCount] =
                      Put(h[m.errorCount], endpoint, Get(h[m.errorCount], endpoint) + 1)]
              ELSE h
  IN  [h1 EXCEPT ![m.numReq] = Put(h1[m.numReq], endpoint, Get(h1[m.numReq], endpoint) + 1)]

\* Update between Lock and Unlock, the status code being an int.
ErrIncrement(h, m, endpoint, statusCode) ==
  LET h1 == IF statusCode >= 400
              THEN [h EXCEPT ![m.errorCount] =
                      Put(h[m.errorCount], endpoint, Get(h[m.errorCount], endpoint) + 1)]
              ELSE h
  IN  [h1 EXCEPT ![m.numReq] = Put(h1[m.numReq], endpoint, Get(h1[m.numReq], endpoint) + 1)]

\* doSnapshot up to m.init(): the snapshot keeps the addresses of the live maps.
ErrAppendSnapshot(m) ==
  [m EXCEPT !.snapshots =
     Append(m.snapshots, [numReq |-> m.numReq, errorCount |-> m.errorCount])]

\* ValueMap lines 499-507: the sums over the retained snapshots, per endpoint
\* of a snapshot's errorCount map.
RECURSIVE ErrSumField(_, _, _, _)
ErrSumField(h, snaps, field, endpoint) ==
  IF snaps = <<>> THEN 0
  ELSE ErrSumField(h, Tail(snaps), field, endpoint)
       + (IF endpoint \in DOMAIN h[Head(snaps).errorCount]
            THEN Get(h[Head(snaps)[field]], endpoint) ELSE 0)

ErrSummedEndpoints(h, snaps) ==
  UNION {DOMAIN h[snaps[i].errorCount] : i \in 1 .. Len(snaps)}

RECURSIVE SumOver(_, _)
SumOver(f, keys) ==
  IF keys = {} THEN 0
  ELSE LET k == CHOOSE x \in keys : TRUE
       IN  f[k] + SumOver(f, keys \ {k})

\* x / y of two ints converted to float32, 0 when y is not positive
Ratio(x, y) == IF y > 0 THEN FDiv(F32(x), F32(y)) ELSE FZero

\* ValueMap lines 499-531: the mapping built from the retained snapshots.
ErrValues(h, m) ==
  LET snaps == m.snapshots
      eps   == ErrSummedEndpoints(h, snaps)
      errorCount == [e \in eps |-> ErrSumField(h, snaps, "errorCount", e)]
      requestCount == [e \in eps |-> ErrSumField(h, snaps, "numReq", e)]
      names == {MetricName(ErrNamePrefix, e, ErrMetricUnit) : e \in eps}
      overall == OverallName(ErrNamePrefixOverall, ErrMetricUnit)
  IN  [n \in names \cup {overall} |->
         IF n = overall
           THEN Ratio(SumOver(errorCount, eps), SumOver(requestCount, eps))
           ELSE LET e == CHOOSE x \in eps : MetricName(ErrNamePrefix, x, ErrMetricUnit) = n
                IN  Ratio(errorCount[e], requestCount[e])]

\* Clear: m.snapshots = make([]*ErrorRatePerEndpointSnapshot, 0)
ErrClearSnapshots(m) == [m EXCEPT !.snapshots = <<>>]

(***************************************************************************)
(* History of the calls on the error-rate metric.                          *)
(*   updates, errors   Updates (with a status >= 400) since the last Clear *)
(*   pending           Updates since the last ValueMap                     *)
(*   carried           the Updates pending when Clear was last called      *)
(*   arg               endpoint and status code of the last Update         *)
(***************************************************************************)
ErrHistInit ==
  [updates |-> ZeroCount, errors |-> ZeroCount, pending |-> ZeroCount,
   carried |-> ZeroCount, last |-> "new", prev |-> "new", total |-> 0,
   exports |-> 0, arg |-> [endpoint |-> unknownEndpoint, statusCode |-> 200],
   ledger |-> 0]

ErrHistUpdate(hist, e, statusCode) ==
  [hist EXCEPT !.updates[e] = @ + 1, !.pending[e] = @ + 1,
               !.errors[e] = IF statusCode >= 400 THEN @ + 1 ELSE @,
               !.prev = hist.last, !.last = "Update", !.total = @ + 1,
               !.arg = [endpoint |-> e, statusCode |-> statusCode]]

ErrHistClear(hist) ==
  [hist EXCEPT !.updates = ZeroCount, !.errors = ZeroCount, !.carried = hist.pending,
               !.prev = hist.last, !.last = "Clear", !.ledger = 0]


(***************************************************************************)
(* Response time per endpoint.  Its maps are never shared, so the metric   *)
(* holds them by value.                                                    *)
(***************************************************************************)
RtNamePrefix == "Component/ResponseTimePerEndpoint/"
RtNamePrefixOverall == "Component/ResponseTime/overall"
RtMetricUnit == "[ms]"

\* The elapsed times, in ms, time.Since returns in the model.
ElapsedMs == {1, 3}

\* make([]float32, 1)
OneZero == <<FZero>>

\* NewResponseTimePerEndpoint: m.endpoints is nil, so only "other" is set.
NewResponseTimePerEndpoint ==
  [numReq |-> EmptyMap,
   responseTimeMap |-> [e \in {unknownEndpoint} |-> OneZero],
   lock |-> FALSE]

\* An Update that takes the start time to be there.
RtStartTimeAssumed(params) == TRUE

\* Update lines 574-577: startTime, ok := params["reqStartTime"]
RtStartTimeGiven(params) == "reqStartTime" \in params.keys

\* Update between Lock and Unlock
RtRecord(m, endpoint, elapsed) ==
  [m EXCEPT !.numReq = Put(m.numReq, endpoint, Get(m.numReq, endpoint) + 1),
            !.responseTimeMap =
               Put(m.responseTimeMap, endpoint,
                   Append(IF endpoint \in DOMAIN m.responseTimeMap
                            THEN m.responseTimeMap[endpoint] ELSE <<>>,
                          F32(elapsed)))]

RECURSIVE FSum(_)
FSum(values) == IF values = <<>> THEN FZero ELSE FAdd(Head(values), FSum(Tail(values)))

RECURSIVE FSumOver(_, _)
FSumOver(f, keys) ==
  IF keys = {} THEN FZero
  ELSE LET k == CHOOSE x \in keys : TRUE
       IN  FAdd(f[k], FSumOver(f, keys \ {k}))

\* ValueMap lines 598-627: the mapping built from the live values.
RtValues(m) ==
  LET eps == DOMAIN m.responseTimeMap
      responseTimeSum == [e \in eps |-> FSum(m.responseTimeMap[e])]
      numReq == [e \in eps |-> Get(m.numReq, e)]
      names == {MetricName(RtNamePrefix, e, RtMetricUnit) : e \in eps}
      overall == OverallName(RtNamePrefixOverall, RtMetricUnit)
      numReqAllEndpoints == SumOver(numReq, eps)
  IN  [n \in names \cup {overall} |->
         IF n = overall
           THEN IF numReqAllEndpoints > 0
                  THEN FDiv(FSumOver(responseTimeSum, eps), F32(numReqAllEndpoints))
                  ELSE FZero
           ELSE LET e == CHOOSE x \in eps : MetricName(RtNamePrefix, x, RtMetricUnit) = n
                IN  IF numReq[e] > 0 THEN FDiv(responseTimeSum[e], F32(numReq[e]))
                    ELSE FZero]

\* ValueMap lines 618-619, for every endpoint of responseTimeMap
RtResetLive(m) ==
  [m EXCEPT !.numReq = [e \in (DOMAIN m.numReq) \cup (DOMAIN m.responseTimeMap) |->
                          IF e \in DOMAIN m.responseTimeMap THEN 0 ELSE m.numReq[e]],
            !.responseTimeMap = [e \in DOMAIN m.responseTimeMap |-> OneZero]]

(***************************************************************************)
(* History of the calls on the response-time metric.                       *)
(*   updates, elapsed  Updates and their summed times since the last Clear *)
(*   exports           ValueMap calls since the last Clear (2: two or more)*)
(*   given             the bag of the last Update call held a start time   *)
(***************************************************************************)
RtHistInit ==
  [updates |-> ZeroCount, elapsed |-> ZeroCount, exports |-> 0,
   last |-> "new", prev |-> "new", total |-> 0, given |-> TRUE]

\* Update returned an error
RtHistError(hist) == [hist EXCEPT !.prev = hist.last, !.last = "UpdateError"]

RtHistGiven(hist, params) == [hist EXCEPT !.given = "reqStartTime" \in params.keys]

RtHistUpdate(hist, e, elapsed) ==
  [hist EXCEPT !.updates[e] = @ + 1, !.elapsed[e] = @ + elapsed,
               !.prev = hist.last, !.last = "Update", !.total = @ + 1]

RtHistValueMap(hist) ==
  [hist EXCEPT !.exports = IF @ < 2 THEN @ + 1 ELSE @,
               !.prev = hist.last, !.last = "ValueMap"]

RtHistClear(hist) ==
  [hist EXCEPT !.updates = ZeroCount, !.elapsed = ZeroCount, !.exports = 0,
               !.prev = hist.last, !.last = "Clear"]

(***************************************************************************)
(* The Reporter.                                                           *)
(***************************************************************************)
\* The outcomes of doRequest: status 200, another status, httpClient.Do failed.
Deliveries == {"200", "status", "transport"}

DeliveryFailures == {"status", "transport"}

\* sendMetrics line 143, for every entry of a returned mapping
Merge(metrics, values) ==
  [n \in (DOMAIN metrics) \cup (DOMAIN values) |->
     IF n \in DOMAIN values THEN values[n] ELSE metrics[n]]

\* The bags the request handler passes to UpdateMetricsOnReqEnd: those
\* DefaultReqParams("log") and CollectParamsOnReqEnd build, and those with
\* one of the three attributes left out.
RequestBags ==
  {p \in ParamBags :
     \/ p.keys = ParamKeys /\ p.endpointName = "log"
     \/ p.keys = ParamKeys \ {"endpointName"} /\ p.statusCode = 404
     \/ p.keys = ParamKeys \ {"statusCode"}
     \/ p.keys = ParamKeys \ {"reqStartTime"} /\ p.endpointName = "log" /\ p.statusCode = 200}

\* The goroutine that handles a request, outside UpdateMetricsOnReqEnd.
RhIdle == [pc |-> "idle", params |-> CHOOSE p \in ParamBags : p.keys = {}, elapsed |-> 0]

(***************************************************************************)
(* History of the reporter.                                                *)
(*   cycles     export cycles started                                      *)
(*   requests   calls of UpdateMetricsOnReqEnd                             *)
(*   delivery   the outcome of the last doRequest                          *)
(*   sent       the metrics of the last request body                       *)
(*   counted    the Updates of the request metric that had returned when   *)
(*              its ValueMap was last called                               *)
(*   panicked   a panic was raised in an export cycle                      *)
(*   fatal      the Go runtime has stopped the process                     *)
(*   fan        the last call of UpdateMetricsOnReqEnd by the single       *)
(*              caller: its arguments, the metrics whose Update it         *)
(*              invoked, in order, and whether a panic left it             *)
(*   stopAsked  the program has asked for the reporter to stop             *)
(***************************************************************************)
NoFanOut == [params |-> RhIdle.params, elapsed |-> 0, invoked |-> <<>>, raised |-> FALSE]

RepInit ==
  [cycles |-> 0, requests |-> 0, delivery |-> "none", sent |-> EmptyMap,
   counted |-> ZeroCount, panicked |-> FALSE, fatal |-> FALSE, fan |-> NoFanOut,
   stopAsked |-> FALSE]

Init ==
  /\ req = NewReqPerEndpoint(1).m
  /\ heap = [a \in Addr |-> IF a = 1 THEN NewReqPerEndpoint(1).map ELSE EmptyMap]
  /\ reqOut = EmptyMap
  /\ reqHist = ReqHistInit
  /\ err = NewErrorRatePerEndpoint.m
  /\ errHeap = NewErrorRatePerEndpoint.h
  /\ errOut = EmptyMap
  /\ errHist = ErrHistInit
  /\ rt = NewResponseTimePerEndpoint
  /\ rtOut = EmptyMap
  /\ rtHist = RtHistInit
  /\ hpc = [h \in Handlers |-> "idle"]
  /\ hloc = [h \in Handlers |-> NoLocals]
  /\ xpc = "idle"
  /\ xout = EmptyMap
  /\ conc = [overlap |-> FALSE, contended |-> FALSE]
  /\ loop = "select"
  /\ tickPending = FALSE
  /\ payload = EmptyMap
  /\ rh = RhIdle
  /\ rep = RepInit

(***************************************************************************)
(* One caller, one call at a time (the package's tests use the metrics so).*)
(***************************************************************************)
\* ReqPerEndpoint.Update
ReqUpdate(params) ==
  /\ reqHist.total < MaxUpdates
  /\ LockFree(req)
  /\ heap' = ReqIncrement(heap, req.numReq, endpointName(params))
  /\ reqHist' = HistUpdate(reqHist, endpointName(params))
  /\ UNCHANGED <<req, reqOut, notReqVars>>

\* ReqPerEndpoint.ValueMap
ReqValueMap ==
  /\ Len(req.snapshots) < MaxSnapshots
  /\ LockFree(req)
  /\ LET m1 == ReqDoSnapshot(req, NewAddr(ReqRoots(req)))
         h1 == [heap EXCEPT ![m1.numReq] = EmptyMap]
         out == ReqValues(h1, m1)
         m2 == ReqResetLive(m1, NewAddr(ReqRoots(m1)))
         h2 == [h1 EXCEPT ![m2.numReq] = EmptyMap]
     IN  /\ req' = m2
         /\ reqOut' = out
         /\ heap' = Collect(h2, ReqRoots(m2))
  /\ reqHist' = HistValueMap(reqHist)
  /\ UNCHANGED notReqVars

\* ReqPerEndpoint.Clear
ReqClear ==
  /\ req' = ReqClearSnapshots(req)
  /\ heap' = Collect(heap, ReqRoots(req'))
  /\ reqHist' = HistClear(reqHist)
  /\ UNCHANGED <<reqOut, notReqVars>>

NextReq ==
  \/ \E params \in ParamBags : ReqUpdate(params)
  \/ ReqValueMap
  \/ ReqClear

SpecReq == Init /\ [][NextReq]_vars

\* ErrorRatePerEndpoint.Update.  The type assertion params["statusCode"].(int)
\* panics on a bag without a status code, after Lock and with no deferred
\* Unlock: the call ends with the lock held and the counters as they were.
ErrUpdate(params) ==
  /\ errHist.total < MaxUpdates
  /\ LockFree(err)
  /\ IF "statusCode" \in params.keys
       THEN /\ errHeap' = ErrIncrement(errHeap, err, endpointName(params), params.statusCode)
            /\ errHist' = ErrHistUpdate(errHist, endpointName(params), params.statusCode)
            /\ UNCHANGED err
       ELSE /\ err' = [err EXCEPT !.lock = TRUE]
            /\ errHist' = [errHist EXCEPT !.prev = errHist.last, !.last = "UpdatePanic"]
            /\ UNCHANGED errHeap
  /\ UNCHANGED <<errOut, notErrVars>>

\* ErrorRatePerEndpoint.ValueMap
ErrValueMap ==
  /\ Len(err.snapshots) < MaxSnapshots
  /\ LockFree(err)
  /\ LET m1 == ErrAppendSnapshot(err)
         h1 == ErrInitMaps(errHeap, m1)
     IN  /\ err' = m1
         /\ errHeap' = h1
         /\ errOut' = ErrValues(h1, m1)
  /\ errHist' = HistValueMap(errHist)
  /\ UNCHANGED notErrVars

\* ErrorRatePerEndpoint.Clear
ErrClear ==
  /\ err' = ErrClearSnapshots(err)
  /\ errHist' = ErrHistClear(errHist)
  /\ UNCHANGED <<errHeap, errOut, notErrVars>>

\* The bags passed to the error-rate metric alone: those of ParamBags, and
\* those with a status code on either side of 400.
BoundaryCodes == {399, 400}

ErrParamBags ==
  ParamBags \cup
    {[p EXCEPT !.statusCode = c] :
       p \in {b \in ParamBags : "statusCode" \in b.keys}, c \in BoundaryCodes}

NextErr ==
  \/ \E params \in ErrParamBags : ErrUpdate(params)
  \/ ErrValueMap
  \/ ErrClear

SpecErr == Init /\ [][NextErr]_vars

\* ResponseTimePerEndpoint.Update: without a start time it returns an error
\* before it locks or changes anything.
RtUpdate(params, elapsed) ==
  /\ rtHist.total < MaxUpdates
  /\ IF RtStartTimeGiven(params)
       THEN /\ LockFree(rt)
            /\ rt' = RtRecord(rt, endpointName(params), elapsed)
            /\ rtHist' = RtHistGiven(RtHistUpdate(rtHist, endpointName(params), elapsed), params)
       ELSE /\ rtHist' = RtHistGiven(RtHistError(rtHist), params)
            /\ UNCHANGED rt
  /\ UNCHANGED <<rtOut, notRtVars>>

\* ResponseTimePerEndpoint.ValueMap
RtValueMap ==
  /\ LockFree(rt)
  /\ rtOut' = RtValues(rt)
  /\ rt' = RtResetLive(rt)
  /\ rtHist' = RtHistValueMap(rtHist)
  /\ UNCHANGED notRtVars

\* ResponseTimePerEndpoint.Clear: its body is a comment.
RtClear ==
  /\ rtHist' = RtHistClear(rtHist)
  /\ UNCHANGED <<rt, rtOut, notRtVars>>

NextRt ==
  \/ \E params \in ParamBags, elapsed \in ElapsedMs : RtUpdate(params, elapsed)
  \/ RtValueMap
  \/ RtClear

SpecRt == Init /\ [][NextRt]_vars

(***************************************************************************)
(* The request and the error-rate metric side by side, one caller, one     *)
(* call at a time: the calls of SpecReq and of SpecErr in any order.       *)
(***************************************************************************)
LedgerBudget == reqHist.total + errHist.total < MaxLedgerUpdates

NextLedger ==
  \/ LedgerBudget /\ \E params \in RequestBags : ReqUpdate(params)
  \/ ReqValueMap
  \/ ReqClear
  \/ LedgerBudget /\ \E params \in RequestBags : ErrUpdate(params)
  \/ ErrValueMap
  \/ ErrClear

SpecLedger == Init /\ [][NextLedger]_vars

(***************************************************************************)
(* Goroutines on the request metric: handlers that call Update while one   *)
(* goroutine calls ValueMap and Clear (in the package, the Reporter's).    *)
(* A step is what a goroutine does between two points at which another can *)
(* observe or change the metric.                                           *)
(***************************************************************************)
\* The bags the handlers pass: built by DefaultReqParams and
\* CollectParamsOnReqEnd for "log", or built without an endpoint name.
HandlerBags ==
  {p \in ParamBags : /\ {"statusCode", "reqStartTime"} \subseteq p.keys
                     /\ p.endpointName = "log"
                     /\ p.statusCode = 200}

UpdatesStarted == reqHist.total + Cardinality({h \in Handlers : hpc[h] # "idle"})

\* Update line 379: endpointName := m.endpointName(params)
HCall(h, params) ==
  /\ hpc[h] = "idle"
  /\ UpdatesStarted < MaxHandlerUpdates
  /\ hloc' = [hloc EXCEPT ![h].endpoint = endpointName(params)]
  /\ hpc' = [hpc EXCEPT ![h] = "lock"]
  /\ conc' = [conc EXCEPT !.overlap = @ \/ xpc # "idle"]
  /\ UNCHANGED <<reqVars, xpc, xout, errVars, rtVars, repVars>>

\* Update line 380: m.lock.Lock()
HLock(h) ==
  /\ hpc[h] = "lock"
  /\ LockFree(req)
  /\ req' = [req EXCEPT !.lock = TRUE]
  /\ hpc' = [hpc EXCEPT ![h] = "read"]
  /\ conc' = [conc EXCEPT !.contended = @ \/ \E g \in Handlers \ {h} : hpc[g] = "lock"]
  /\ UNCHANGED <<heap, reqOut, reqHist, hloc, xpc, xout, errVars, rtVars, repVars>>

\* Update line 381, the read of m.numReq[endpointName]++
HRead(h) ==
  /\ hpc[h] = "read"
  /\ hloc' = [hloc EXCEPT ![h].addr = req.numReq,
                          ![h].val = Get(heap[req.numReq], hloc[h].endpoint)]
  /\ hpc' = [hpc EXCEPT ![h] = "write"]
  /\ UNCHANGED <<reqVars, xpc, xout, conc, errVars, rtVars, repVars>>

\* Update line 381, the write of m.numReq[endpointName]++
HWrite(h) ==
  /\ hpc[h] = "write"
  /\ heap' = [heap EXCEPT ![hloc[h].addr] = Put(@, hloc[h].endpoint, hloc[h].val + 1)]
  /\ hpc' = [hpc EXCEPT ![h] = "unlock"]
  /\ UNCHANGED <<req, reqOut, reqHist, hloc, xpc, xout, conc, errVars, rtVars, repVars>>

\* Update lines 382-384: m.lock.Unlock(); return nil
HUnlock(h) ==
  /\ hpc[h] = "unlock"
  /\ req' = [req EXCEPT !.lock = FALSE]
  /\ hloc' = [hloc EXCEPT ![h] = NoLocals]
  /\ hpc' = [hpc EXCEPT ![h] = "idle"]
  /\ heap' = Collect(heap, ReqRoots(req) \cup LocalRoots(hloc'))
  /\ reqHist' = HistUpdate(reqHist, hloc[h].endpoint)
  /\ UNCHANGED <<reqOut, xpc, xout, conc, errVars, rtVars, repVars>>

\* ValueMap is called
XCall ==
  /\ xpc = "idle"
  /\ Len(req.snapshots) < MaxExports
  /\ xpc' = "doSnapshot"
  /\ conc' = [conc EXCEPT !.overlap = \E h \in Handlers : hpc[h] # "idle"]
  /\ UNCHANGED <<reqVars, hpc, hloc, xout, errVars, rtVars, repVars>>

\* doSnapshot line 388: m.lock.Lock()
XLock ==
  /\ xpc = "doSnapshot"
  /\ LockFree(req)
  /\ req' = [req EXCEPT !.lock = TRUE]
  /\ xpc' = "locked"
  /\ UNCHANGED <<heap, reqOut, reqHist, hpc, hloc, xout, conc, errVars, rtVars, repVars>>

\* doSnapshot lines 391-393, with the deferred Unlock
XSnapshot ==
  /\ xpc = "locked"
  /\ LET m1 == ReqDoSnapshot(req, NewAddr(ReqRoots(req) \cup LocalRoots(hloc)))
     IN  /\ req' = [m1 EXCEPT !.lock = FALSE]
         /\ heap' = [heap EXCEPT ![m1.numReq] = EmptyMap]
  /\ xpc' = "sum"
  /\ UNCHANGED <<reqOut, reqHist, hpc, hloc, xout, conc, errVars, rtVars, repVars>>

\* ValueMap lines 400-410: the sums over m.snapshots, with no lock held
XSum ==
  /\ xpc = "sum"
  /\ xout' = ReqValues(heap, req)
  /\ xpc' = "reset"
  /\ UNCHANGED <<reqVars, hpc, hloc, conc, errVars, rtVars, repVars>>

\* ValueMap lines 412-416: m.numReq = make(...), with no lock held, and return
XReset ==
  /\ xpc = "reset"
  /\ LET m2 == ReqResetLive(req, NewAddr(ReqRoots(req) \cup LocalRoots(hloc)))
     IN  /\ req' = m2
         /\ heap' = Collect([heap EXCEPT ![m2.numReq] = EmptyMap],
                            ReqRoots(m2) \cup LocalRoots(hloc))
  /\ reqOut' = xout
  /\ xout' = EmptyMap
  /\ reqHist' = HistValueMap(reqHist)
  /\ xpc' = "idle"
  /\ UNCHANGED <<hpc, hloc, conc, errVars, rtVars, repVars>>

\* Clear, called by the goroutine that calls ValueMap; it takes no lock.
XClear ==
  /\ xpc = "idle"
  /\ reqHist.clears < MaxClears
  /\ req' = ReqClearSnapshots(req)
  /\ heap' = Collect(heap, ReqRoots(req') \cup LocalRoots(hloc))
  /\ reqHist' = HistClear(reqHist)
  /\ UNCHANGED <<reqOut, concVars, errVars, rtVars, repVars>>

NextConc ==
  \/ \E h \in Handlers, params \in HandlerBags : HCall(h, params)
  \/ \E h \in Handlers : HLock(h)
  \/ \E h \in Handlers : HRead(h)
  \/ \E h \in Handlers : HWrite(h)
  \/ \E h \in Handlers : HUnlock(h)
  \/ XCall
  \/ XLock
  \/ XSnapshot
  \/ XSum
  \/ XReset
  \/ XClear

SpecConc == Init /\ [][NextConc]_vars

(***************************************************************************)
(* The program: the goroutine Reporter.Start starts, and a goroutine that  *)
(* handles requests and calls UpdateMetricsOnReqEnd.  Each Update is one   *)
(* step, as its body holds the metric's lock; ValueMap of the request and  *)
(* the error-rate metric is two steps, doSnapshot under the lock and the   *)
(* rest without it.  Reporter.Metrics is as InitDefaultReporter builds it. *)
(***************************************************************************)
\* time passes: the ticker sends on ticker.C (capacity 1)
Tick ==
  /\ ~rep.fatal
  /\ ~tickPending
  /\ rep.cycles < MaxTicks
  /\ tickPending' = TRUE
  /\ UNCHANGED <<loop, payload, rh, rep, reqVars, errVars, rtVars, concVars>>

\* Start line 119 and sendMetrics line 137: a tick is received, the cycle
\* starts with prepareReqData
LoopTick ==
  /\ ~rep.fatal
  /\ loop = "select"
  /\ tickPending
  /\ tickPending' = FALSE
  /\ payload' = EmptyMap
  /\ loop' = "reqSnapshot"
  /\ rep' = [rep EXCEPT !.cycles = @ + 1]
  /\ UNCHANGED <<rh, reqVars, errVars, rtVars, concVars>>

\* ReqPerEndpoint.ValueMap line 398: doSnapshot
LoopReqSnapshot ==
  /\ ~rep.fatal
  /\ loop = "reqSnapshot"
  /\ LockFree(req)
  /\ LET m1 == ReqDoSnapshot(req, NewAddr(ReqRoots(req)))
     IN  /\ req' = m1
         /\ heap' = [heap EXCEPT ![m1.numReq] = EmptyMap]
  /\ rep' = [rep EXCEPT !.counted = reqHist.updates]
  /\ loop' = "reqSum"
  /\ UNCHANGED <<reqOut, reqHist, tickPending, payload, rh, errVars, rtVars, concVars>>

\* ReqPerEndpoint.ValueMap lines 400-416, and sendMetrics lines 142-144
LoopReqSum ==
  /\ ~rep.fatal
  /\ loop = "reqSum"
  /\ LET out == ReqValues(heap, req)
         m2 == ReqResetLive(req, NewAddr(ReqRoots(req)))
     IN  /\ req' = m2
         /\ heap' = Collect([heap EXCEPT ![m2.numReq] = EmptyMap], ReqRoots(m2))
         /\ reqOut' = out
         /\ payload' = Merge(payload, out)
  /\ reqHist' = HistValueMap(reqHist)
  /\ loop' = "errSnapshot"
  /\ UNCHANGED <<tickPending, rh, rep, errVars, rtVars, concVars>>

\* ErrorRatePerEndpoint.ValueMap line 497: doSnapshot
LoopErrSnapshot ==
  /\ ~rep.fatal
  /\ loop = "errSnapshot"
  /\ LockFree(err)
  /\ err' = ErrAppendSnapshot(err)
  /\ errHeap' = ErrInitMaps(errHeap, err')
  /\ loop' = "errSum"
  /\ UNCHANGED <<errOut, errHist, tickPending, payload, rh, rep, reqVars, rtVars, concVars>>

\* ErrorRatePerEndpoint.ValueMap lines 499-531, and sendMetrics lines 142-144
LoopErrSum ==
  /\ ~rep.fatal
  /\ loop = "errSum"
  /\ errOut' = ErrValues(errHeap, err)
  /\ payload' = Merge(payload, errOut')
  /\ errHist' = HistValueMap(errHist)
  /\ loop' = "rtValueMap"
  /\ UNCHANGED <<errHeap, err, tickPending, rh, rep, reqVars, rtVars, concVars>>

\* ResponseTimePerEndpoint.ValueMap, and sendMetrics lines 142-144
LoopRtValueMap ==
  /\ ~rep.fatal
  /\ loop = "rtValueMap"
  /\ LockFree(rt)
  /\ rtOut' = RtValues(rt)
  /\ rt' = RtResetLive(rt)
  /\ payload' = Merge(payload, rtOut')
  /\ rtHist' = RtHistValueMap(rtHist)
  /\ loop' = "doRequest"
  /\ UNCHANGED <<tickPending, rh, rep, reqVars, errVars, concVars>>

\* sendMetrics lines 147-161 and doRequest: whatever the outcome, doRequest
\* returns and the loop selects again; no metric is touched.
LoopDoRequest(outcome) ==
  /\ ~rep.fatal
  /\ loop = "doRequest"
  /\ rep' = [rep EXCEPT !.delivery = outcome, !.sent = payload]
  /\ loop' = "select"
  /\ UNCHANGED <<tickPending, payload, rh, reqVars, errVars, rtVars, concVars>>

\* A panic in sendMetrics (Reporter.Metrics holds any AppMetric): it unwinds
\* the for loop of Start lines 117-125 to the deferred function of lines
\* 111-115, which recovers and logs; the goroutine function then returns.
LoopPanic ==
  /\ ~rep.fatal
  /\ loop \in {"reqSnapshot", "errSnapshot", "rtValueMap", "doRequest"}
  /\ loop' = "exited"
  /\ rep' = [rep EXCEPT !.panicked = TRUE]
  /\ UNCHANGED <<tickPending, payload, rh, reqVars, errVars, rtVars, concVars>>

\* A request ends: UpdateMetricsOnReqEnd(params) is called
ReqEnd(params, elapsed) ==
  /\ ~rep.fatal
  /\ rh.pc = "idle"
  /\ rep.requests < MaxRequests
  /\ rh' = [pc |-> "req", params |-> params, elapsed |-> elapsed]
  /\ rep' = [rep EXCEPT !.requests = @ + 1]
  /\ UNCHANGED <<loop, tickPending, payload, reqVars, errVars, rtVars, concVars>>

\* UpdateMetricsOnReqEnd, Engine.Metrics[0]: ReqPerEndpoint.Update
HandleReq ==
  /\ ~rep.fatal
  /\ rh.pc = "req"
  /\ LockFree(req)
  /\ heap' = ReqIncrement(heap, req.numReq, endpointName(rh.params))
  /\ reqHist' = HistUpdate(reqHist, endpointName(rh.params))
  /\ rh' = [rh EXCEPT !.pc = "err"]
  /\ UNCHANGED <<req, reqOut, loop, tickPending, payload, rep, errVars, rtVars, concVars>>

\* UpdateMetricsOnReqEnd, Engine.Metrics[1]: ErrorRatePerEndpoint.Update,
\* lines 472-475: Lock, and the increment of errorCount.  ValueMap reads the
\* maps Update writes without the lock, so it can run between the two
\* increments of Update, which are two steps here.  The panic on a bag without
\* a status code leaves UpdateMetricsOnReqEnd, with the lock of the metric held.
HandleErr ==
  /\ ~rep.fatal
  /\ rh.pc = "err"
  /\ LockFree(err)
  /\ err' = [err EXCEPT !.lock = TRUE]
  /\ IF "statusCode" \in rh.params.keys
       THEN /\ errHeap' = IF rh.params.statusCode >= 400
                            THEN [errHeap EXCEPT ![err.errorCount] =
                                    Put(@, endpointName(rh.params),
                                        Get(@, endpointName(rh.params)) + 1)]
                            ELSE errHeap
            /\ rh' = [rh EXCEPT !.pc = "errReq"]
            /\ UNCHANGED errHist
       ELSE /\ errHist' = [errHist EXCEPT !.prev = errHist.last, !.last = "UpdatePanic"]
            /\ rh' = RhIdle
            /\ UNCHANGED errHeap
  /\ UNCHANGED <<errOut, loop, tickPending, payload, rep, reqVars, rtVars, concVars>>

\* ErrorRatePerEndpoint.Update lines 476-479: the increment of numReq, Unlock
HandleErrReq ==
  /\ ~rep.fatal
  /\ rh.pc = "errReq"
  /\ errHeap' = [errHeap EXCEPT ![err.numReq] =
                   Put(@, endpointName(rh.params), Get(@, endpointName(rh.params)) + 1)]
  /\ err' = [err EXCEPT !.lock = FALSE]
  /\ errHist' = ErrHistUpdate(errHist, endpointName(rh.params), rh.params.statusCode)
  /\ rh' = [rh EXCEPT !.pc = "rt"]
  /\ UNCHANGED <<errOut, loop, tickPending, payload, rep, reqVars, rtVars, concVars>>

\* UpdateMetricsOnReqEnd, Engine.Metrics[2]: ResponseTimePerEndpoint.Update;
\* the error it returns is dropped.
HandleRt ==
  /\ ~rep.fatal
  /\ rh.pc = "rt"
  /\ IF RtStartTimeGiven(rh.params)
       THEN /\ LockFree(rt)
            /\ rt' = RtRecord(rt, endpointName(rh.params), rh.elapsed)
            /\ rtHist' = RtHistGiven(RtHistUpdate(rtHist, endpointName(rh.params), rh.elapsed),
                                     rh.params)
       ELSE /\ rtHist' = RtHistGiven(RtHistError(rtHist), rh.params)
            /\ UNCHANGED rt
  /\ rh' = RhIdle
  /\ UNCHANGED <<rtOut, loop, tickPending, payload, rep, reqVars, errVars, concVars>>

\* ErrorRatePerEndpoint.ValueMap reads, with no lock, the maps its snapshots
\* hold, which are the maps Update writes: when both run at once the Go
\* runtime may stop the process (concurrent map read and map write); when it
\* does not, ValueMap reads what Update has written so far (LoopErrSum).
MapRaceFatal ==
  /\ ~rep.fatal
  /\ loop = "errSum"
  /\ rh.pc = "errReq"
  /\ rep' = [rep EXCEPT !.fatal = TRUE]
  /\ UNCHANGED <<loop, tickPending, payload, rh, reqVars, errVars, rtVars, concVars>>

\* The program wants the reporter stopped.  Start returns nothing and quit
\* is a local of Start that no code sends on or closes, so there is nothing
\* the program can call: the request changes nothing in the Reporter, and the
\* quit case of the select (lines 121-123) is never taken.
StopRequest ==
  /\ ~rep.fatal
  /\ ~rep.stopAsked
  /\ rep' = [rep EXCEPT !.stopAsked = TRUE]
  /\ UNCHANGED <<loop, tickPending, payload, rh, reqVars, errVars, rtVars, concVars>>

NextReporter ==
  \/ Tick
  \/ LoopTick
  \/ LoopReqSnapshot
  \/ LoopReqSum
  \/ LoopErrSnapshot
  \/ LoopErrSum
  \/ LoopRtValueMap
  \/ \E outcome \in Deliveries : LoopDoRequest(outcome)
  \/ LoopPanic
  \/ \E params \in RequestBags, elapsed \in ElapsedMs : ReqEnd(params, elapsed)
  \/ HandleReq
  \/ HandleErr
  \/ HandleErrReq
  \/ HandleRt
  \/ MapRaceFatal
  \/ StopRequest

SpecReporter == Init /\ [][NextReporter]_vars

(***************************************************************************)
(* The default reporter used by one goroutine: it calls                    *)
(* UpdateMetricsOnReqEnd at the end of a request and runs the loop of      *)
(* sendMetrics over Reporter.Metrics, one call at a time.  A call that     *)
(* waits for a lock nobody will release stays where it waits (rh.pc,       *)
(* loop).  No code of the package calls Clear on these metrics.            *)
(***************************************************************************)
\* The bags passed here: at most one of the three attributes is left out.
CollectorBags == {p \in ParamBags : Cardinality(p.keys) >= 2}

\* UpdateMetricsOnReqEnd: v.Update(params) for the three metrics
\* InitDefaultReporter added, in that order; the returned errors are dropped,
\* a panic ends the loop.
CollectorUpdate(params, elapsed) ==
  LET e == endpointName(params)
      toErr == [params |-> params, elapsed |-> elapsed,
                invoked |-> <<"req", "err">>, raised |-> FALSE]
  IN
  /\ rh.pc = "idle"
  /\ rep.requests < MaxCollects
  /\ LockFree(req)
  /\ heap' = ReqIncrement(heap, req.numReq, e)
  /\ reqHist' = HistUpdate(reqHist, e)
  /\ IF ~LockFree(err)
       THEN \* ErrorRatePerEndpoint.Update waits in m.lock.Lock()
            /\ rh' = [pc |-> "err", params |-> params, elapsed |-> elapsed]
            /\ rep' = [rep EXCEPT !.requests = @ + 1, !.fan = toErr]
            /\ UNCHANGED <<errHeap, err, errHist, rt, rtHist>>
       ELSE IF "statusCode" \notin params.keys
       THEN \* params["statusCode"].(int) panics with the lock held
            /\ err' = [err EXCEPT !.lock = TRUE]
            /\ errHist' = [errHist EXCEPT !.prev = errHist.last, !.last = "UpdatePanic"]
            /\ rep' = [rep EXCEPT !.requests = @ + 1, !.fan = [toErr EXCEPT !.raised = TRUE]]
            /\ UNCHANGED <<errHeap, rh, rt, rtHist>>
       ELSE /\ errHeap' = ErrIncrement(errHeap, err, e, params.statusCode)
            /\ errHist' = ErrHistUpdate(errHist, e, params.statusCode)
            /\ IF RtStartTimeGiven(params)
                 THEN /\ rt' = RtRecord(rt, e, elapsed)
                      /\ rtHist' = RtHistGiven(RtHistUpdate(rtHist, e, elapsed), params)
                 ELSE /\ rtHist' = RtHistGiven(RtHistError(rtHist), params)
                      /\ UNCHANGED rt
            /\ rep' = [rep EXCEPT !.requests = @ + 1,
                                  !.fan = [toErr EXCEPT !.invoked = <<"req", "err", "rt">>]]
            /\ UNCHANGED <<err, rh>>
  /\ UNCHANGED <<req, reqOut, errOut, rtOut, loop, tickPending, payload, concVars>>

\* sendMetrics lines 137-145: ValueMap of every metric, merged into
\* reqData.Components[0].Metrics.
CollectorExport ==
  /\ loop = "select"
  /\ Len(req.snapshots) < MaxExports
  /\ LockFree(req)
  /\ LET m1 == ReqDoSnapshot(req, NewAddr(ReqRoots(req)))
         h1 == [heap EXCEPT ![m1.numReq] = EmptyMap]
         out == ReqValues(h1, m1)
         m2 == ReqResetLive(m1, NewAddr(ReqRoots(m1)))
         h2 == [h1 EXCEPT ![m2.numReq] = EmptyMap]
     IN  /\ req' = m2
         /\ reqOut' = out
         /\ heap' = Collect(h2, ReqRoots(m2))
  /\ reqHist' = HistValueMap(reqHist)
  /\ IF ~LockFree(err)
       THEN \* ErrorRatePerEndpoint.doSnapshot waits in m.lock.Lock()
            /\ loop' = "errSnapshot"
            /\ payload' = Merge(EmptyMap, reqOut')
            /\ UNCHANGED <<errVars, rtVars>>
       ELSE /\ err' = ErrAppendSnapshot(err)
            /\ errHeap' = ErrInitMaps(errHeap, err')
            /\ errOut' = ErrValues(errHeap', err')
            /\ errHist' = HistValueMap(errHist)
            /\ rtOut' = RtValues(rt)
            /\ rt' = RtResetLive(rt)
            /\ rtHist' = RtHistValueMap(rtHist)
            /\ payload' = Merge(Merge(Merge(EmptyMap, reqOut'), errOut'), rtOut')
            /\ UNCHANGED loop
  /\ UNCHANGED <<tickPending, rh, rep, concVars>>

NextCollector ==
  \/ \E params \in CollectorBags, elapsed \in ElapsedMs : CollectorUpdate(params, elapsed)
  \/ CollectorExport

SpecCollector == Init /\ [][NextCollector]_vars

(***************************************************************************)
(* Properties of the metrics under one caller.                             *)
(***************************************************************************)
\* values[name] of a returned mapping: the zero value when the name is missing.
Value(out, name) == IF name \in DOMAIN out THEN out[name] ELSE FZero

ReqName(e) == MetricName(ReqNamePrefix, e, ReqMetricUnit)
ErrName(e) == MetricName(ErrNamePrefix, e, ErrMetricUnit)

AllZero(out) == \A n \in DOMAIN out : out[n] = FZero

C2_ErrRateSinceClear ==
  errHist.last = "ValueMap" =>
    \A e \in Endpoints :
      errHist.updates[e] > 0 =>
        Value(errOut, ErrName(e)) = Ratio(errHist.errors[e], errHist.updates[e])

\* C10: the error-rate ValueMap that directly follows a Clear returns 0 for
\* every entry (stated for the case in which a ValueMap had taken every Update
\* before the Clear was called).
C10_ErrZeroAfterClear ==
  (errHist.prev = "Clear" /\ errHist.last = "ValueMap" /\ errHist.carried = ZeroCount)
    => AllZero(errOut)

RtName(e) == MetricName(RtNamePrefix, e, RtMetricUnit)

\* C9: from the second ValueMap after the last Clear (or after construction)
\* on, the response-time mapping gives, per endpoint and overall, the mean
\* over all Updates since that Clear: summed elapsed time over request count.
C9_RtMeanSinceClear ==
  (rtHist.last = "ValueMap" /\ rtHist.exports = 2) =>
    /\ \A e \in Endpoints :
         rtHist.updates[e] > 0 =>
           Value(rtOut, RtName(e)) = Ratio(rtHist.elapsed[e], rtHist.updates[e])
    /\ Value(rtOut, OverallName(RtNamePrefixOverall, RtMetricUnit))
         = Ratio(SumOver(rtHist.elapsed, Endpoints), SumOver(rtHist.updates, Endpoints))

(***************************************************************************)
(* Properties of the request metric under concurrent callers.              *)
(***************************************************************************)
\* Every call has returned, the last one to return was a ValueMap, and no
\* Update was in progress at any moment of that ValueMap.
FinalExportDone ==
  /\ xpc = "idle"
  /\ \A h \in Handlers : hpc[h] = "idle"
  /\ reqHist.last = "ValueMap"
  /\ ~conc.overlap

\* C4: with no Clear called, a ValueMap that runs after all other calls have
\* returned reports, for every endpoint, the number of Updates made to it,
\* also when earlier ValueMap calls ran while Updates were in progress.
C4_NoUpdateLostToExport ==
  (FinalExportDone /\ reqHist.clears = 0) =>
    \A e \in Endpoints : Value(reqOut, ReqName(e)) = F32(reqHist.updates[e])

\* C5: when the Updates of the handler goroutines have all returned before the
\* one and only ValueMap is called (and Clear never), that ValueMap reports,
\* for every endpoint, the number of Updates made to it.
C5_ConcurrentUpdatesCounted ==
  (FinalExportDone /\ reqHist.clears = 0 /\ reqHist.exports = 1) =>
    \A e \in Endpoints : Value(reqOut, ReqName(e)) = F32(reqHist.updates[e])

\* C5 witness: handlers contended for the lock, their Updates of "log" all
\* returned, and then the single ValueMap reported them all.
C5_Witness ==
  /\ FinalExportDone /\ reqHist.clears = 0 /\ reqHist.exports = 1
  /\ conc.contended
  /\ reqHist.updates["log"] = MaxHandlerUpdates
  /\ reqOut[ReqName("log")] = F32(MaxHandlerUpdates)

(***************************************************************************)
(* Properties of the Reporter.                                             *)
(***************************************************************************)
\* C6: when a cycle's delivery was confirmed (status 200) and the loop is
\* back at its select, Clear has been called on the exported metrics: the
\* request and the error-rate metric retain no snapshot.
C6_ClearedAfterDelivery ==
  (loop = "select" /\ rep.delivery = "200") =>
    /\ req.snapshots = <<>>
    /\ err.snapshots = <<>>

\* C7: in a cycle that follows a failed delivery (and no Clear), the mapping
\* of the request metric merged into the payload gives, for every endpoint,
\* all the Updates that had returned when its ValueMap was called.
C7_NoLossAfterFailure ==
  (loop = "errSnapshot" /\ rep.delivery \in DeliveryFailures) =>
    \A e \in Endpoints : Value(payload, ReqName(e)) = F32(rep.counted[e])

\* C8: a panic in an export cycle does not end the loop of Reporter.Start.
C8_LoopSurvivesPanic ==
  rep.panicked => loop # "exited"

(***************************************************************************)
(* Properties of the default reporter under one caller.                    *)
(***************************************************************************)
\* The mappings the three ValueMaps would return if called on the metric m
\* (with the maps h).
ReqExportOf(h, m) ==
  LET m1 == ReqDoSnapshot(m, NewAddr(ReqRoots(m)))
  IN  ReqValues([h EXCEPT ![m1.numReq] = EmptyMap], m1)

ErrExportOf(h, m) ==
  LET m1 == ErrAppendSnapshot(m)
  IN  ErrValues(ErrInitMaps(h, m1), m1)

RtExportOf(m) == RtValues(m)

\* The last step was a call of UpdateMetricsOnReqEnd.
FanOutStep == rep'.requests = rep.requests + 1

\* C11: an Update for endpoint A (by UpdateMetricsOnReqEnd, on each of the
\* three metrics) leaves unchanged the value ValueMap computes for every other
\* endpoint B.
C11_EndpointIsolation ==
  [][FanOutStep =>
       \A B \in Endpoints \ {endpointName(rep'.fan.params)} :
         /\ Value(ReqExportOf(heap', req'), ReqName(B))
              = Value(ReqExportOf(heap, req), ReqName(B))
         /\ Value(ErrExportOf(errHeap', err'), ErrName(B))
              = Value(ErrExportOf(errHeap, err), ErrName(B))
         /\ Value(RtExportOf(rt'), RtName(B)) = Value(RtExportOf(rt), RtName(B))]_vars

\* C11 witness: "api" has a non-zero value in the three metrics (one request
\* with status 404), and a later Update for "log" reached all three.
C11_Witness ==
  /\ rep.requests >= 2
  /\ endpointName(rep.fan.params) = "log"
  /\ rep.fan.invoked = <<"req", "err", "rt">>
  /\ "reqStartTime" \in rep.fan.params.keys
  /\ reqHist.updates["log"] >= 1
  /\ Value(ReqExportOf(heap, req), ReqName("api")) = F32(1)
  /\ Value(ErrExportOf(errHeap, err), ErrName("api")) = F32(1)
  /\ Value(RtExportOf(rt), RtName("api")) # FZero

\* C12: every call of UpdateMetricsOnReqEnd that has ended invoked Update on
\* the three registered metrics, in registration order, whatever attribute
\* the bag lacks, and raised nothing to its caller.
C12_FanOutReachesAll ==
  (rep.requests > 0 /\ rh.pc = "idle") =>
    /\ rep.fan.invoked = <<"req", "err", "rt">>
    /\ ~rep.fan.raised

\* The endpoint an Update is accounted to, as C14 states it.
SentinelOr(params) ==
  IF "endpointName" \in params.keys THEN params.endpointName ELSE "other"

\* n is the count m plus one for the endpoint t and plus nothing for another.
CountedAt(n, m, t) ==
  \A e \in Endpoints : Get(n, e) = Get(m, e) + (IF e = t THEN 1 ELSE 0)

\* C14: every Update that succeeds counts its event under "other", and under
\* no other endpoint, when the bag has no endpoint attribute, and under the
\* named endpoint otherwise, whose bucket exists afterwards also when the name
\* was never seen before; this for the three metrics.
C14_SentinelEndpoint ==
  [][FanOutStep =>
       LET p == rep'.fan.params
           t == SentinelOr(p)
       IN  /\ CountedAt(heap'[req'.numReq], heap[req.numReq], t)
           /\ t \in DOMAIN heap'[req'.numReq]
           /\ rep'.fan.invoked = <<"req", "err", "rt">> =>
                /\ CountedAt(errHeap'[err'.numReq], errHeap[err.numReq], t)
                /\ t \in DOMAIN errHeap'[err'.numReq]
                /\ "reqStartTime" \in p.keys =>
                     /\ CountedAt(rt'.numReq, rt.numReq, t)
                     /\ t \in DOMAIN rt'.numReq
                     /\ t \in DOMAIN rt'.responseTimeMap]_vars

\* C14 witness: a request named "api", which no metric had seen, and then a
\* request without an endpoint attribute were counted by the three metrics.
C14_Witness ==
  /\ rep.requests = 2
  /\ "endpointName" \notin rep.fan.params.keys
  /\ rep.fan.invoked = <<"req", "err", "rt">>
  /\ "reqStartTime" \in rep.fan.params.keys
  /\ heap[req.numReq] = [e \in {"other", "api"} |-> 1]
  /\ errHeap[err.numReq] = [e \in {"other", "api"} |-> 1]
  /\ rt.numReq = [e \in {"other", "api"} |-> 1]

\* The Update events of C16: an endpoint and a status code.
UpdateEvents == Endpoints \X StatusCodes

\* C16: from every reachable state, two Update events applied in either order
\* leave the maps of the request and of the error-rate metric with the same
\* contents (the metrics' other fields are not written by Update), so that the
\* same ValueMap and Clear calls afterwards return the same mappings.
C16_UpdatesCommute ==
  /\ \A x, y \in Endpoints :
       LET Req2(a, b) == ReqIncrement(ReqIncrement(heap, req.numReq, a), req.numReq, b)
       IN  Req2(x, y) = Req2(y, x)
  /\ \A p, q \in UpdateEvents :
       LET Err2(a, b) == ErrIncrement(ErrIncrement(errHeap, err, a[1], a[2]), err, b[1], b[2])
       IN  Err2(p, q) = Err2(q, p)

\* C16 witness: Updates of two endpoints with two status codes were made and
\* exported.
C16_Witness ==
  /\ reqHist.last = "ValueMap" /\ errHist.last = "ValueMap"
  /\ errHist.updates["log"] = 1 /\ errHist.errors["log"] = 0
  /\ errHist.updates["api"] = 1 /\ errHist.errors["api"] = 1
  /\ reqOut[ReqName("log")] = F32(1) /\ reqOut[ReqName("api")] = F32(1)

(***************************************************************************)
(* Properties of the error-rate metric under one caller.                   *)
(***************************************************************************)
\* The live counters of an endpoint.
ErrLiveNumReq(h, m, e) == Get(h[m.numReq], e)
ErrLiveErrorCount(h, m, e) == Get(h[m.errorCount], e)

\* The last step was an Update of the error-rate metric that succeeded.
ErrUpdateStep == errHist'.total = errHist.total + 1

\* C18: an Update of the error-rate metric that succeeds adds 1 to the request
\* count of its endpoint, adds 1 to the error count of that endpoint when the
\* status code is >= 400 and 0 otherwise, and changes no other endpoint's
\* counters.
C18_ErrUpdateCounts ==
  [][ErrUpdateStep =>
       \A e \in Endpoints :
         LET hit == e = errHist'.arg.endpoint
             bad == hit /\ errHist'.arg.statusCode >= 400
         IN  /\ ErrLiveNumReq(errHeap', err', e)
                  = ErrLiveNumReq(errHeap, err, e) + (IF hit THEN 1 ELSE 0)
             /\ ErrLiveErrorCount(errHeap', err', e)
                  = ErrLiveErrorCount(errHeap, err, e) + (IF bad THEN 1 ELSE 0)]_vars

\* C18 witness: "log" was updated with the status codes 399 and 400, in that
\* order, and one error is counted for its two requests.
C18_Witness ==
  /\ errHist.last = "Update" /\ errHist.total = 2
  /\ errHist.arg = [endpoint |-> "log", statusCode |-> 400]
  /\ ErrLiveNumReq(errHeap, err, "log") = 2
  /\ ErrLiveErrorCount(errHeap, err, "log") = 1

\* C19: the overall entry of the error-rate mapping is the number of Updates
\* with a status >= 400 over the number of Updates, both over all endpoints,
\* and 0 when there was no Update (stated for the first ValueMap, with one
\* retained snapshot, every Update so far having been made since the last
\* Clear and none of them for "other").
C19_ErrOverallRate ==
  (/\ errHist.last = "ValueMap" /\ errHist.exports = 1
   /\ errHist.carried = ZeroCount /\ errHist.updates[unknownEndpoint] = 0) =>
    Value(errOut, OverallName(ErrNamePrefixOverall, ErrMetricUnit))
      = Ratio(SumOver(errHist.errors, Endpoints), SumOver(errHist.updates, Endpoints))

\* The counters a retained snapshot of the error-rate metric holds.
ErrSnapshotContents(h, snap) == [numReq |-> h[snap.numReq], errorCount |-> h[snap.errorCount]]

\* C20, for the error-rate metric: no step changes the contents of a snapshot
\* that stays in m.snapshots, and right after ValueMap the live counters of
\* every endpoint are 0.
C20_ErrSnapshotsImmutable ==
  [][/\ \A i \in 1 .. Len(err.snapshots) :
          i <= Len(err'.snapshots) =>
            ErrSnapshotContents(errHeap', err'.snapshots[i])
              = ErrSnapshotContents(errHeap, err.snapshots[i])
     /\ (errHist' # errHist /\ errHist'.last = "ValueMap") =>
          \A e \in Endpoints :
            /\ ErrLiveNumReq(errHeap', err', e) = 0
            /\ ErrLiveErrorCount(errHeap', err', e) = 0]_vars

(***************************************************************************)
(* Properties of the response-time metric under one caller.                *)
(***************************************************************************)
\* The last step was a call of ResponseTimePerEndpoint.Update.
RtUpdateStep == rtHist' # rtHist /\ rtHist'.last \in {"Update", "UpdateError"}

\* C13: an Update of the response-time metric with a bag that holds no start
\* time returns an error and leaves the request counts and the recorded times
\* of every endpoint as they were.
C13_NoStartTimeNoChange ==
  [][(RtUpdateStep /\ ~rtHist'.given) => (rtHist'.last = "UpdateError" /\ rt' = rt)]_vars

\* C13 witness: requests of "log" are recorded, and an Update without a start
\* time has just returned its error.
C13_Witness ==
  /\ rtHist.last = "UpdateError" /\ rtHist.prev = "Update" /\ ~rtHist.given
  /\ Get(rt.numReq, "log") >= 1
  /\ Len(rt.responseTimeMap["log"]) >= 1

\* The per-endpoint sums ValueMap builds over the retained snapshots.
ErrSums(h, m) ==
  [e \in ErrSummedEndpoints(h, m.snapshots) |->
     [errorCount |-> ErrSumField(h, m.snapshots, "errorCount", e),
      requestCount |-> ErrSumField(h, m.snapshots, "numReq", e)]]

\* C15: errorCount <= requestCount for every endpoint, in the live counters
\* and in every retained snapshot whenever no Update holds the metric's lock,
\* and in the sums ValueMap builds whenever it builds them; and every error
\* rate ValueMap has returned is at most 1.
C15_ErrorsAtMostRequests ==
  /\ LockFree(err) =>
       \A e \in Endpoints :
         /\ ErrLiveErrorCount(errHeap, err, e) <= ErrLiveNumReq(errHeap, err, e)
         /\ \A i \in 1 .. Len(err.snapshots) :
              Get(errHeap[err.snapshots[i].errorCount], e)
                <= Get(errHeap[err.snapshots[i].numReq], e)
  /\ loop = "errSum" =>
       \A e \in DOMAIN ErrSums(errHeap, err) :
         ErrSums(errHeap, err)[e].errorCount <= ErrSums(errHeap, err)[e].requestCount
  /\ \A n \in DOMAIN errOut : errOut[n][1] <= errOut[n][2]

\* C17: once the program has asked for the reporter to stop, no timer tick
\* starts an export cycle.
C17_NoCycleAfterStop ==
  [][rep.stopAsked => rep'.cycles = rep.cycles]_vars

C24_OverallIsSumOfEntries ==
  reqHist.exports > 0 =>
    LET overall == OverallName(ReqNamePrefixOverall, ReqMetricUnit)
    IN  /\ overall \in DOMAIN reqOut
        /\ reqOut[overall] = FSumOver(reqOut, DOMAIN reqOut \ {overall})

\* C24 witness: a mapping built from two snapshots with entries for three
\* endpoints, 3 requests in all.
C24_Witness ==
  /\ reqHist.last = "ValueMap"
  /\ Len(req.snapshots) = 2
  /\ \A e \in Endpoints : Value(reqOut, ReqName(e)) = F32(1)
  /\ Value(reqOut, OverallName(ReqNamePrefixOverall, ReqMetricUnit)) = F32(3)

(***************************************************************************)
(* Further properties of the request metric under concurrent callers.      *)
(***************************************************************************)
\* A handler is inside the critical section of Update: it holds the lock and
\* has m.numReq still to read or the map it read still to write.
InUpdateSection(h) == hpc[h] \in {"read", "write"}

\* C22: the accesses of ValueMap to the live counters and to the snapshots
\* are made with the metric's lock held, so ValueMap is never at its summation
\* or at its reset of m.numReq while an Update is inside its critical section.
C22_NoAccessOutsideLock ==
  \A h \in Handlers : ~(xpc \in {"sum", "reset"} /\ InUpdateSection(h))

(***************************************************************************)
(* Further properties of the error-rate metric under one caller.           *)
(***************************************************************************)
\* C26: every call of Update, ValueMap and Clear on the error-rate metric
\* that has ended, also one ended by a missing or wrongly typed attribute, has
\* released the metric's lock: between the calls of the one caller the lock
\* is free.
C26_LockReleasedByEveryCall ==
  LockFree(err)

(***************************************************************************)
(* Further properties of the Reporter.                                     *)
(***************************************************************************)
\* When an export cycle comes to send its request, it has called
\* ValueMap once on each of the three registered metrics (as has every cycle
\* before it), and the payload holds every entry of the three returned
\* mappings, and no other; the names of the three mappings are disjoint.
PayloadHoldsAllEntries ==
  loop = "doRequest" =>
    /\ Len(req.snapshots) = rep.cycles
    /\ Len(err.snapshots) = rep.cycles
    /\ rtHist.exports = (IF rep.cycles < 2 THEN rep.cycles ELSE 2)
    /\ DOMAIN payload = (DOMAIN reqOut) \cup (DOMAIN errOut) \cup (DOMAIN rtOut)
    /\ \A n \in DOMAIN reqOut : payload[n] = reqOut[n]
    /\ \A n \in DOMAIN errOut : payload[n] = errOut[n]
    /\ \A n \in DOMAIN rtOut : payload[n] = rtOut[n]
    /\ (DOMAIN reqOut) \cap (DOMAIN errOut) = {}
    /\ (DOMAIN reqOut) \cap (DOMAIN rtOut) = {}
    /\ (DOMAIN errOut) \cap (DOMAIN rtOut) = {}

\* C23: every export cycle a tick has started goes on to call ValueMap on
\* each registered metric (where it waits for the lock of the error-rate
\* metric, an Update that will release it is running), and the payload it sends
\* holds every entry of the three mappings under names that do not collide.
C23_EveryTickExportsAll ==
  /\ loop = "errSnapshot" => (LockFree(err) \/ rh.pc = "errReq")
  /\ PayloadHoldsAllEntries

(***************************************************************************)
(* Properties of the ledgers of retained snapshots.                        *)
(***************************************************************************)
\* C25: for the request and for the error-rate metric, the number of retained
\* snapshots is the number of ValueMap calls since the last Clear: ValueMap
\* appends one, Update none, and Clear removes them all.
C25_LedgerLength ==
  /\ Len(req.snapshots) = reqHist.ledger
  /\ Len(err.snapshots) = errHist.ledger

\* C25 witness: after Updates and a Clear of the request metric, two ValueMap
\* calls on it and three on the error-rate metric, never cleared, are retained.
C25_Witness ==
  /\ reqHist.clears >= 1 /\ reqHist.total >= 1 /\ errHist.total >= 1
  /\ Len(req.snapshots) = 2
  /\ Len(err.snapshots) = 3
  /\ errHist.last = "ValueMap"

=============================================================================
